---- MODULE Spec2Model ----
(***************************************************************************)
(* Model of custom_color_palette.py: the numeric range generator `range`,  *)
(* the per-segment colour resolution `_colors_from_spec` and the palette   *)
(* compositor `creates_palette`; of the download functions of              *)
(* goes_plots.py (descargar_goes_aws, descargar_goes_serie_aws and         *)
(* descargar_goes_ultima_hora_aws), which take one step for each access to *)
(* the bucket or to the local folder; and of the animation mode of app.py. *)
(*                                                                         *)
(* Numbers.  Raw values are integers (a fixed unit of the value axis).     *)
(* Quotients the code forms (normalized positions, interpolation           *)
(* fractions, colour components) are exact rationals kept in lowest terms. *)
(* `range` is also called with decimals: its arguments are whole numbers,  *)
(* halves, fifths or tenths, and the quotient it floors is the one IEEE    *)
(* double arithmetic gives for them.                                       *)
(* Colours are records [cm, c, d]: for cm = "rgba" the four components are *)
(* c[k]/d; for a matplotlib Colormap named cm the colour is the sample     *)
(* cm(c[1]/d), which the model keeps symbolic.                             *)
(***************************************************************************)
EXTENDS Integers, Sequences, FiniteSets, TLC

\* ---- bounds of the model ------------------------------------------------
\* segment values lie in 0..MaxVal
MaxVal == 2
\* a palette has at most MaxSegs segments and MaxTotal values in all
MaxSegs == 2
MaxTotal == 4
\* range is called with start, stop in -MaxRange..MaxRange, step in -MaxStep..MaxStep
MaxRange == 4
MaxStep == 3
\* _colors_from_spec is called with lists of 1..MaxColors colours and n in 0..MaxN
MaxColors == 3
MaxN == 5
\* a palette that is built twice has at most MaxRepeatTotal values in all
MaxRepeatTotal == 3
\* the hours asked for are 0..MaxHour
MaxHour == 1
\* the bucket holds at most MaxKeys objects of the requested day and band
MaxKeys == 2

\* pc: what the caller is doing; rng: the last call of range and its result;
\* args: the arguments built for creates_palette; res: the locals of the last
\* call of creates_palette when it returned or raised; cfs: the last call of
\* _colors_from_spec and its result
VARIABLES pc, rng, args, res, cfs

\* heap: the value sequences the caller of creates_palette holds, as objects,
\* each under its identity; hist: what the caller's segment list held before
\* the first of two equal calls, and what that call handed back; memo: the
\* index orders np.argsort has returned so far
VARIABLES heap, hist, memo

repeatVars == <<heap, hist, memo>>

\* s3: the objects of the bucket under the requested year, day and band;
\* disk: the files of the local folder, each absent, partial or complete;
\* dl: the download call of the session: where it stands, its locals and, once
\* it has returned, its result; other: the copy another session has under way
VARIABLES s3, disk, dl, other

downloadVars == <<s3, disk, dl, other>>

paletteVars == <<pc, rng, args, res, cfs>>

\* session: st.session_state of the browser session; ui: what the last rerun
\* of the script in animation mode did
VARIABLES session, ui

animVars == <<session, ui>>

farVars == <<downloadVars, animVars>>

vars == <<paletteVars, repeatVars, farVars>>

\* ---- arithmetic helpers -------------------------------------------------
Abs(x) == IF x < 0 THEN -x ELSE x

RECURSIVE GCD(_, _)
GCD(a, b) == IF b = 0 THEN a ELSE GCD(b, a % b)

\* np.floor of a quotient of two numbers, b # 0
FloorDiv(a, b) == IF b > 0 THEN a \div b ELSE (-a) \div (-b)

\* the rational n/d (d > 0) in lowest terms
Rat(n, d) == LET g == GCD(Abs(n), d) IN [n |-> n \div g, d |-> d \div g]

RatLeq(x, y) == x.n * y.d <= y.n * x.d

Zero == Rat(0, 1)

One == Rat(1, 1)

\* np.clip(x, 0.0, 1.0)
Clip01(x) == IF RatLeq(x, Zero) THEN Zero ELSE IF RatLeq(One, x) THEN One ELSE x

\* ---- range --------------------------------------------------------------
\* np.linspace(start, stop, num) on integer endpoints
linspace(start, stop, num) ==
  IF num < 0
  THEN [error |-> "ValueError", y |-> <<>>]
  ELSE [error |-> "none",
        y |-> [i \in 1..num |->
                 IF num = 1 THEN start
                 ELSE start + FloorDiv((i - 1) * (stop - start), num - 1)]]

\* the arguments <<start, stop, step>> in tenths, step in 1..5, start and stop
\* in -6..6, for which (stop - start) / step, a whole number in exact
\* arithmetic, comes out just below that number in IEEE double arithmetic: each
\* decimal is first rounded to the nearest double, then the difference and the
\* quotient are rounded (0.3 / 0.1 = 2.9999999999999996)
ShortQuotients ==
  {
    <<-6, -5, 1>>, <<-6, -4, 1>>, <<-6, -4, 2>>, <<-6, -3, 1>>, <<-6, -2, 1>>,
    <<-6, -2, 2>>, <<-6, -2, 4>>, <<-6, 0, 1>>, <<-6, 0, 2>>, <<-6, 1, 1>>,
    <<-6, 3, 1>>, <<-6, 6, 1>>, <<-6, 6, 2>>, <<-6, 6, 4>>, <<-5, -4, 1>>,
    <<-5, -2, 1>>, <<-5, 1, 1>>, <<-5, 1, 2>>, <<-5, 2, 1>>, <<-4, 3, 1>>,
    <<-3, -4, 1>>, <<-3, -2, 1>>, <<-3, -1, 1>>, <<-3, -1, 2>>, <<-3, 0, 1>>,
    <<-3, 3, 1>>, <<-3, 3, 2>>, <<-3, 4, 1>>, <<-3, 6, 1>>, <<-2, 5, 1>>,
    <<-1, -4, 1>>, <<-1, -4, 3>>, <<-1, 5, 1>>, <<-1, 5, 2>>, <<-1, 6, 1>>,
    <<0, 3, 1>>, <<0, 6, 1>>, <<0, 6, 2>>, <<1, -2, 1>>, <<1, -2, 3>>,
    <<1, 3, 1>>, <<1, 3, 2>>, <<2, -4, 1>>, <<2, -4, 2>>, <<2, -4, 3>>,
    <<2, -1, 1>>, <<2, -1, 3>>, <<2, 3, 1>>, <<2, 5, 1>>, <<2, 6, 1>>,
    <<2, 6, 2>>, <<2, 6, 4>>, <<3, 6, 1>>, <<4, -2, 1>>, <<4, -2, 2>>,
    <<4, -2, 3>>, <<4, 1, 1>>, <<4, 1, 3>>, <<4, 3, 1>>, <<4, 5, 1>>,
    <<4, 6, 1>>, <<4, 6, 2>>, <<5, 6, 1>>
  }

\* the units in which range is given its arguments: whole numbers, halves,
\* fifths or tenths (decimals with one digit)
Units == {1, 2, 5, 10}

\* np.floor((stop - start) / step) for the floats start/unit, stop/unit and
\* step/unit.  Whole numbers and halves are doubles and divide exactly; the
\* quotient of tenths is the exact one or falls below it; fifths are the
\* doubles of tenths times two and behave as these do (negating or doubling
\* all three arguments changes nothing)
floor_quotient(start, stop, step, unit) ==
  LET exact == FloorDiv(stop - start, step)
      sign == IF step > 0 THEN 1 ELSE -1
  IN IF unit \in {5, 10} /\ <<sign * start, sign * stop, sign * step>> \in ShortQuotients
     THEN exact - 1
     ELSE exact

\* range(start/unit, stop/unit, step/unit); the points of the result are given
\* in the same unit, as the grid points the floats stand for
range(start, stop, step, unit) ==
  IF step = 0
  THEN [error |-> "ZeroDivisionError", y |-> <<>>]
  ELSE LET n_steps == floor_quotient(start, stop, step, unit) + 1
       IN linspace(start, start + step * (n_steps - 1), n_steps)

\* ---- colours -------------------------------------------------------------
\* mcolors.to_rgba(name)
to_rgba(name) ==
  CASE name = "black" -> <<0, 0, 0, 1>>
    [] name = "white" -> <<1, 1, 1, 1>>
    [] name = "red" -> <<1, 0, 0, 1>>

RECURSIVE GCDSeq(_, _)
GCDSeq(s, g) == IF s = <<>> THEN g ELSE GCDSeq(Tail(s), GCD(Abs(Head(s)), g))

\* the colour with components c[k]/d, in lowest terms
Color(cm, c, d) ==
  LET g == GCDSeq(c, d) IN [cm |-> cm, c |-> [k \in DOMAIN c |-> c[k] \div g], d |-> d \div g]

\* a colour specification: a list of colour names or a matplotlib Colormap
ColorList(names) == [kind |-> "list", names |-> names]

Colormap(name) == [kind |-> "cmap", names |-> <<name>>]

\* a plausible slip: the blend weights are swapped
_colors_from_spec_swapped(color_spec, n) ==
  IF color_spec.kind = "cmap"
  THEN [i \in 1..n |-> Color(color_spec.names[1], <<i - 1>>, IF n = 1 THEN 1 ELSE n - 1)]
  ELSE LET names == color_spec.names
           m == Len(names)
       IN IF m = 1
          THEN [i \in 1..n |-> Color("rgba", to_rgba(names[1]), 1)]
          ELSE [k \in 1..n |->
                  LET i == k - 1
                      D == IF n - 1 > 1 THEN n - 1 ELSE 1
                      i0 == (i * (m - 1)) \div D
                      r == (i * (m - 1)) % D
                      ceil == IF r = 0 THEN i0 ELSE i0 + 1
                      i1 == IF ceil < m - 1 THEN ceil ELSE m - 1
                      c0 == to_rgba(names[i0 + 1])
                      c1 == to_rgba(names[i1 + 1])
                  IN Color("rgba", [j \in 1..4 |-> r * c0[j] + (D - r) * c1[j]], D)]

\* a plausible slip: the single colour is repeated without its alpha
_colors_from_spec_rgb_only(color_spec, n) ==
  IF color_spec.kind = "cmap"
  THEN [i \in 1..n |-> Color(color_spec.names[1], <<i - 1>>, IF n = 1 THEN 1 ELSE n - 1)]
  ELSE LET names == color_spec.names
           m == Len(names)
       IN IF m = 1
          THEN [i \in 1..n |-> Color("rgba", SubSeq(to_rgba(names[1]), 1, 3), 1)]
          ELSE [k \in 1..n |->
                  LET i == k - 1
                      D == IF n - 1 > 1 THEN n - 1 ELSE 1
                      i0 == (i * (m - 1)) \div D
                      r == (i * (m - 1)) % D
                      ceil == IF r = 0 THEN i0 ELSE i0 + 1
                      i1 == IF ceil < m - 1 THEN ceil ELSE m - 1
                      c0 == to_rgba(names[i0 + 1])
                      c1 == to_rgba(names[i1 + 1])
                  IN Color("rgba", [j \in 1..4 |-> (D - r) * c0[j] + r * c1[j]], D)]

\* a plausible slip: the fractional blend is dropped, c = c0
_colors_from_spec_no_blend(color_spec, n) ==
  IF color_spec.kind = "cmap"
  THEN [i \in 1..n |-> Color(color_spec.names[1], <<i - 1>>, IF n = 1 THEN 1 ELSE n - 1)]
  ELSE LET names == color_spec.names
           m == Len(names)
       IN IF m = 1
          THEN [i \in 1..n |-> Color("rgba", to_rgba(names[1]), 1)]
          ELSE [k \in 1..n |->
                  LET i == k - 1
                      D == IF n - 1 > 1 THEN n - 1 ELSE 1
                      i0 == (i * (m - 1)) \div D
                  IN Color("rgba", to_rgba(names[i0 + 1]), 1)]

\* a plausible slip: t = i / n in place of i / max(n - 1, 1)
_colors_from_spec_div_n(color_spec, n) ==
  IF color_spec.kind = "cmap"
  THEN [i \in 1..n |-> Color(color_spec.names[1], <<i - 1>>, IF n = 1 THEN 1 ELSE n - 1)]
  ELSE LET names == color_spec.names
           m == Len(names)
       IN IF m = 1
          THEN [i \in 1..n |-> Color("rgba", to_rgba(names[1]), 1)]
          ELSE [k \in 1..n |->
                  LET i == k - 1
                      D == n
                      i0 == (i * (m - 1)) \div D
                      r == (i * (m - 1)) % D
                      ceil == IF r = 0 THEN i0 ELSE i0 + 1
                      i1 == IF ceil < m - 1 THEN ceil ELSE m - 1
                      c0 == to_rgba(names[i0 + 1])
                      c1 == to_rgba(names[i1 + 1])
                  IN Color("rgba", [j \in 1..4 |-> (D - r) * c0[j] + r * c1[j]], D)]

\* _colors_from_spec(color_spec, n): the n colours of a segment.
\* With D = max(n-1, 1): t = i/D, pos = i*(m-1)/D, i0 = floor(pos),
\* frac = pos - i0 = r/D with r = i*(m-1) mod D.
_colors_from_spec(color_spec, n) ==
  IF color_spec.kind = "cmap"
  THEN [i \in 1..n |-> Color(color_spec.names[1], <<i - 1>>, IF n = 1 THEN 1 ELSE n - 1)]
  ELSE LET names == color_spec.names
           m == Len(names)
       IN IF m = 1
          THEN [i \in 1..n |-> Color("rgba", to_rgba(names[1]), 1)]
          ELSE [k \in 1..n |->
                  LET i == k - 1
                      D == IF n - 1 > 1 THEN n - 1 ELSE 1
                      i0 == (i * (m - 1)) \div D
                      r == (i * (m - 1)) % D
                      ceil == IF r = 0 THEN i0 ELSE i0 + 1
                      i1 == IF ceil < m - 1 THEN ceil ELSE m - 1
                      c0 == to_rgba(names[i0 + 1])
                      c1 == to_rgba(names[i1 + 1])
                  IN Color("rgba", [j \in 1..4 |-> (D - r) * c0[j] + r * c1[j]], D)]

\* ---- creates_palette ----------------------------------------------------
\* a plausible slip: the accumulators outlive the call (module-level lists,
\* or mutable default arguments) and start from what the last call left
EmptyAcc_shared == [all_vals |-> res.acc_vals, all_cols |-> res.acc_cols, error |-> "none"]

\* the accumulators before the loop
EmptyAcc == [all_vals |-> <<>>, all_cols |-> <<>>, error |-> "none"]

\* a plausible slip: the length test lets a one-element segment through,
\* and pal[1] then raises IndexError
LoopBody_off_by_one(acc, pal) ==
  IF acc.error # "none" THEN acc
  ELSE IF Len(pal) < 1 THEN acc
  ELSE IF Len(pal) < 2 THEN [acc EXCEPT !.error = "IndexError"]
  ELSE LET color_spec == pal[1]
           vals == pal[2]
           cols_seg == _colors_from_spec(color_spec, Len(vals))
       IN [acc EXCEPT !.all_vals = @ \o vals, !.all_cols = @ \o cols_seg]

\* a plausible slip: the values are taken from the last element of the segment
\* (pal[-1]) instead of the second
LoopBody_last_element(acc, pal) ==
  IF acc.error # "none" THEN acc
  ELSE IF Len(pal) < 2 THEN acc
  ELSE LET color_spec == pal[1]
           vals == pal[Len(pal)]
           cols_seg == _colors_from_spec(color_spec, Len(vals))
       IN [acc EXCEPT !.all_vals = @ \o vals, !.all_cols = @ \o cols_seg]

\* one iteration of `for pal in paletas`
LoopBody(acc, pal) ==
  IF acc.error # "none" THEN acc
  ELSE IF Len(pal) < 2 THEN acc
  ELSE LET color_spec == pal[1]
           vals == pal[2]
           cols_seg == _colors_from_spec(color_spec, Len(vals))
       IN [acc EXCEPT !.all_vals = @ \o vals, !.all_cols = @ \o cols_seg]

\* the whole loop over paletas
RECURSIVE Accumulate(_, _)
Accumulate(acc, paletas) ==
  IF paletas = <<>> THEN acc ELSE Accumulate(LoopBody(acc, Head(paletas)), Tail(paletas))

SeqMin(s) == CHOOSE x \in {s[i] : i \in DOMAIN s} : \A j \in DOMAIN s : x <= s[j]

SeqMax(s) == CHOOSE x \in {s[i] : i \in DOMAIN s} : \A j \in DOMAIN s : x >= s[j]

RECURSIVE SortedOrders(_, _)
SortedOrders(vals, remaining) ==
  IF remaining = {} THEN {<<>>}
  ELSE LET least == {i \in remaining : \A j \in remaining : vals[i] <= vals[j]}
       IN UNION {{<<i>> \o s : s \in SortedOrders(vals, remaining \ {i})} : i \in least}

\* a plausible slip: the values are left in accumulation order
ArgSorts_identity(vals) == {[i \in DOMAIN vals |-> i]}

\* np.argsort(all_vals): an index order that sorts the values ascending.
\* The default sort kind is not stable, so the order among equal values is
\* any of the possible ones.
ArgSorts(vals) == SortedOrders(vals, DOMAIN vals)

\* all_vals[order]
TakeVals(all_vals, order) == [i \in DOMAIN order |-> all_vals[order[i]]]

\* a plausible slip: the colours are not reordered with the values
TakeCols_unordered(all_cols, order) == all_cols

\* [all_cols[i] for i in order]
TakeCols(all_cols, order) == [i \in DOMAIN order |-> all_cols[order[i]]]

\* a plausible slip: the endpoints are not forced
Normalize_unpinned(all_vals, vmin, denom) ==
  [i \in DOMAIN all_vals |-> Clip01(Rat(all_vals[i] - vmin, denom))]

\* a plausible slip: the distance is taken from the wrong end,
\* (vmax - all_vals) / denom with vmax = vmin + denom or, when all values are
\* equal, vmax = vmin
Normalize_reversed(all_vals, vmin, denom) ==
  LET n == Len(all_vals)
      vmax == IF \A i \in 1..n : all_vals[i] = vmin THEN vmin ELSE vmin + denom
      clipped == [i \in 1..n |-> Clip01(Rat(vmax - all_vals[i], denom))]
      first_set == [clipped EXCEPT ![1] = Zero]
  IN [first_set EXCEPT ![n] = One]

\* vals_norm: normalized, clipped, then first and last entry overwritten
Normalize(all_vals, vmin, denom) ==
  LET n == Len(all_vals)
      clipped == [i \in 1..n |-> Clip01(Rat(all_vals[i] - vmin, denom))]
      first_set == [clipped EXCEPT ![1] = Zero]
  IN [first_set EXCEPT ![n] = One]

RECURSIVE SortSet(_)
SortSet(S) ==
  IF S = {} THEN <<>>
  ELSE LET x == CHOOSE y \in S : \A z \in S : y <= z IN <<x>> \o SortSet(S \ {x})

\* a plausible slip: np.sort in place of np.unique keeps the duplicates
unique_keep_duplicates(all_vals) == all_vals

\* np.unique(all_vals): the sorted distinct values
unique(all_vals) == SortSet({all_vals[i] : i \in DOMAIN all_vals})

\* the default number of colormap entries, LinearSegmentedColormap.N
CmapN == 256

NoNorm == [boundaries |-> <<>>, Ncmap |-> 0, extend |-> "", n_regions |-> 0, error |-> "none"]

\* mcolors.BoundaryNorm(boundaries, ncolors, extend=extend)
BoundaryNorm(boundaries, ncolors, extend) ==
  LET N == Len(boundaries)
      n_regions == (N - 1) + (IF extend \in {"min", "both"} THEN 1 ELSE 0)
                           + (IF extend \in {"max", "both"} THEN 1 ELSE 0)
  IN [boundaries |-> boundaries, Ncmap |-> ncolors, extend |-> extend,
      n_regions |-> n_regions,
      error |-> IF N < 2 \/ n_regions > ncolors THEN "ValueError" ELSE "none"]

\* the locals of a call of creates_palette, before the call
NoCall ==
  [paletas |-> <<>>, extend |-> "", acc_vals |-> <<>>, acc_cols |-> <<>>,
   order |-> <<>>, all_vals |-> <<>>, all_cols |-> <<>>,
   vmin |-> 0, vmax |-> 0, denom |-> 0, vals_norm |-> <<>>, color_list |-> <<>>,
   bounds |-> <<>>, ticks |-> <<>>, norm |-> NoNorm,
   error |-> "none", line |-> 0, returned |-> FALSE]

\* creates_palette(paletas, extend) with the index order argsort produced:
\* the locals when the call returns or raises (line = the raising line)
creates_palette(paletas, extend, order) ==
  LET acc == Accumulate(EmptyAcc, paletas)
      entered == [NoCall EXCEPT !.paletas = paletas, !.extend = extend,
                                !.acc_vals = acc.all_vals, !.acc_cols = acc.all_cols]
  IN IF acc.error # "none"
     THEN [entered EXCEPT !.error = acc.error, !.line = 92]
     ELSE
     LET all_vals == TakeVals(acc.all_vals, order)
         all_cols == TakeCols(acc.all_cols, order)
         sorted == [entered EXCEPT !.order = order, !.all_vals = all_vals,
                                   !.all_cols = all_cols]
     IN IF all_vals = <<>>
        THEN [sorted EXCEPT !.error = "ValueError", !.line = 106]
        ELSE
        LET vmin == SeqMin(all_vals)
            vmax == SeqMax(all_vals)
            denom == IF vmax > vmin THEN vmax - vmin ELSE 1
            vals_norm == Normalize(all_vals, vmin, denom)
            color_list == [i \in DOMAIN vals_norm |-> <<vals_norm[i], all_cols[i]>>]
            bounds == unique(all_vals)
            ticks == bounds
            norm == BoundaryNorm(bounds, CmapN, extend)
            built == [sorted EXCEPT !.vmin = vmin, !.vmax = vmax, !.denom = denom,
                                    !.vals_norm = vals_norm, !.color_list = color_list,
                                    !.bounds = bounds, !.ticks = ticks, !.norm = norm]
        IN IF norm.error # "none"
           THEN [built EXCEPT !.error = norm.error, !.line = 129]
           ELSE [built EXCEPT !.returned = TRUE]

\* ---- the inputs the model draws --------------------------------------------
\* arguments of range: start and stop on the value axis, any step, in one of
\* the units
RangeArgs ==
  (-MaxRange..MaxRange) \X (-MaxRange..MaxRange) \X (-MaxStep..MaxStep) \X Units

\* value sequences of segments, built as the plotting code builds them:
\* ccp.range(start, stop, 1)
ValueSeqs ==
  {range(t[1], t[2], 1, 1).y : t \in
     {u \in (0..MaxVal) \X (0..MaxVal) : range(u[1], u[2], 1, 1).error = "none"}}

ColorSpecs ==
  {ColorList(<<"red">>), ColorList(<<"black", "white">>), Colormap("Greys")}

\* the optional third element of a segment (a stretch hint, ignored)
ExtraHint == range(0, MaxVal, 1, 1).y

\* a segment is a list: [], [colors] or [colors, values] ...
Segments ==
  {<<>>, <<ColorList(<<"red">>)>>} \cup {<<c, v>> : c \in ColorSpecs, v \in ValueSeqs}

\* ... or [colors, values, extra]: the call with a hint on each full segment
WithHints(paletas) ==
  [i \in DOMAIN paletas |->
     IF Len(paletas[i]) = 2 THEN Append(paletas[i], ExtraHint) ELSE paletas[i]]

\* the extend argument: the default, which every caller passes
ExtendModes == {"both"}

\* arguments of _colors_from_spec: a Colormap or a list of colour names
ColorNames == {"black", "white", "red"}

ColorArgs ==
  {Colormap("Greys")} \cup
  UNION {{ColorList(f) : f \in [1..m -> ColorNames]} : m \in 1..MaxColors}

\* ---- GOES download (goes_plots.py) ------------------------------------------
\* the requested day of the year
day_of_year == 100

\* the last hour of a day
LastHour == 23

Minutes == {0, 30}

\* the file name of an object: whether it carries a start stamp _sYYYYDDDHHMM,
\* and the day, hour and minute of the stamp
Name(ok, jjj, hh, mm) == [ok |-> ok, jjj |-> jjj, hh |-> hh, mm |-> mm]

\* objects of the hours 0 and 1, filed under the hour directory of their start
\* stamp
InLayout ==
  {[dir |-> h, name |-> Name(TRUE, day_of_year, h, m)] : h \in {0, 1}, m \in Minutes}

\* objects whose name does not agree with their directory: a stamp of the day
\* before, a stamp that is no time of day, a name without stamp (..._G19_t.nc),
\* and a stamp of hour 0 in the directory of hour 1
OffLayout ==
  {[dir |-> 0, name |-> Name(TRUE, day_of_year - 1, LastHour, 30)],
   [dir |-> 0, name |-> Name(TRUE, day_of_year, LastHour + 1, 0)],
   [dir |-> 0, name |-> Name(FALSE, 0, 0, 0)],
   [dir |-> 1, name |-> Name(TRUE, day_of_year, 0, 15)]}

AllKeys == InLayout \cup OffLayout

AllNames == {k.name : k \in AllKeys}

\* the order of file names as strings
NameRank(n) ==
  IF n.ok THEN ((n.jjj * 100) + n.hh) * 100 + n.mm ELSE (day_of_year + 1) * 10000

RECURSIVE SortKeys(_)
SortKeys(S) ==
  IF S = {} THEN <<>>
  ELSE LET k == CHOOSE x \in S : \A y \in S : NameRank(x.name) <= NameRank(y.name)
       IN <<k>> \o SortKeys(S \ {k})

\* fs.glob(prefix + "*.nc") for the directory of hour h: a sorted list
glob(bucket, h) == SortKeys({k \in bucket : k.dir = h})

\* datetime.strptime(..., "%Y %j %H %M"): whether it parses, and the time in
\* minutes
strptime(jjj, hh, mm) ==
  [ok |-> jjj \in 1..366 /\ hh \in 0..23 /\ mm \in 0..59,
   dt |-> ((jjj * 24) + hh) * 60 + mm]

\* a plausible slip: the test for the local file is left out
exists_never(files, ruta_local) == FALSE

\* ruta_local.exists(): a file is there, whatever it holds
exists(files, ruta_local) == files[ruta_local] # "absent"

\* the hours a loop over `hours` does not skip (if h < 0 or h > 23: continue)
HoursVisited(hours) == SelectSeq(hours, LAMBDA h : ~(h < 0 \/ h > LastHour))

\* range(hora_central - (n_horas - 1), hora_central + 1) of Python
Horas(hora_central, n_horas) == [i \in 1..n_horas |-> hora_central - n_horas + i]

\* frames_tmp: the keys whose name has a stamp that parses, as (dt, key)
FramesTmp(keys_todas) ==
  LET good == SelectSeq(keys_todas,
                LAMBDA k : k.name.ok /\ strptime(k.name.jjj, k.name.hh, k.name.mm).ok)
  IN [i \in DOMAIN good |->
        <<strptime(good[i].name.jjj, good[i].name.hh, good[i].name.mm).dt, good[i]>>]

\* a plausible slip: the window runs to the end of the central hour
InWindow_whole_hour(dt, hora_central) ==
  LET centro_dt == strptime(day_of_year, hora_central, 0).dt
      t_min == centro_dt - 60
      t_max == centro_dt + 60
  IN t_min <= dt /\ dt <= t_max

\* t_min <= dt <= t_max
InWindow(dt, hora_central) ==
  LET centro_dt == strptime(day_of_year, hora_central, 0).dt
      t_min == centro_dt - 60
      t_max == centro_dt
  IN t_min <= dt /\ dt <= t_max

RECURSIVE InsertByDt(_, _)
InsertByDt(s, f) ==
  IF s = <<>> THEN <<f>>
  ELSE IF Head(s)[1] <= f[1] THEN <<Head(s)>> \o InsertByDt(Tail(s), f)
  ELSE <<f>> \o s

\* list.sort(key=lambda x: x[0]): a stable sort by the first component
RECURSIVE SortByDt(_)
SortByDt(s) ==
  IF s = <<>> THEN <<>>
  ELSE InsertByDt(SortByDt(SubSeq(s, 1, Len(s) - 1)), s[Len(s)])

\* frames_filtrados after the sort; it is empty where the code returns [] early
\* (no key listed, no stamp parsed)
FramesFiltrados(keys_todas, hora_central) ==
  SortByDt(SelectSeq(FramesTmp(keys_todas), LAMBDA f : InWindow(f[1], hora_central)))

NoFiles == [n \in AllNames |-> "absent"]

\* no download call of the session under way.  fn: the function called;
\* pc: where the call stands ("glob", "exists", "open", "wopen", "copy": about
\* to list, to test for the file, to call fs.open, to open the local file, in
\* the copy loop; "returned": its result is in ret or frames); hour: the
\* argument hour or hora_central; horas: the hours still to visit; keys: keys
\* or keys_todas; todo: the rest of frames_filtrados; frames: the frames
\* gathered; ret: <<>> for None, <<ruta_local>> for a path; seen: the file as
\* exists() last found it; listed: no listing raised; opened: fs.open was
\* called; wrote: the local file was opened for writing; raised: an exception
\* was caught; whole: no other session has opened the file since this call
\* opened it; hole: a copy this call cut short of its start has run to its end,
\* so the file lacks only a stretch at its start, which this copy has yet to
\* write
NoDl ==
  [fn |-> "none", pc |-> "idle", hour |-> 0, horas |-> <<>>, keys |-> <<>>,
   todo |-> <<>>, frames |-> <<>>, ret |-> <<>>, seen |-> "none", listed |-> FALSE,
   opened |-> FALSE, wrote |-> FALSE, raised |-> FALSE, whole |-> FALSE,
   hole |-> FALSE]

\* another browser session is not copying.  busy: it has a file open for
\* writing; name: that file; whole, hole: as for dl
NoOther ==
  [busy |-> FALSE, name |-> Name(FALSE, 0, 0, 0), whole |-> FALSE, hole |-> FALSE]

\* the local file the call is working on
ruta_local(c) ==
  IF c.fn = "descargar_goes_ultima_hora_aws" THEN Head(c.todo)[2].name
  ELSE c.keys[1].name

\* descargar_goes_aws hands ret back: to its caller, or to the loop of
\* descargar_goes_serie_aws, which appends (h, nc_path) and calls it again for
\* the next hour, or sorts and returns
Return(c, ret) ==
  IF c.fn = "descargar_goes_aws"
  THEN [c EXCEPT !.pc = "returned", !.ret = ret, !.whole = FALSE, !.hole = FALSE]
  ELSE LET frames == IF ret = <<>> THEN c.frames
                     ELSE Append(c.frames, <<Head(c.horas), ret[1]>>)
           rest == Tail(c.horas)
       IN IF rest = <<>>
          THEN [c EXCEPT !.pc = "returned", !.ret = ret, !.horas = rest,
                         !.frames = SortByDt(frames), !.whole = FALSE,
                         !.hole = FALSE]
          ELSE [NoDl EXCEPT !.fn = c.fn, !.pc = "glob", !.hour = c.hour,
                            !.horas = rest, !.frames = frames]

\* the loop `for dt, key in frames_filtrados` goes on: the frame is appended
\* (line 270) or skipped (continue, line 268)
NextFrame(c, got) ==
  LET frames == IF got THEN Append(c.frames, <<Head(c.todo)[1], Head(c.todo)[2].name>>)
                ELSE c.frames
      rest == Tail(c.todo)
  IN [c EXCEPT !.frames = frames, !.todo = rest, !.whole = FALSE, !.hole = FALSE,
               !.pc = IF rest = <<>> THEN "returned" ELSE "exists"]

\* the entry of descargar_goes_ultima_hora_aws, up to the loop over
\* horas_a_consultar
EnterUltimaHora(hora_central) ==
  LET horas == HoursVisited(<<hora_central - 1, hora_central>>)
  IN [NoDl EXCEPT !.fn = "descargar_goes_ultima_hora_aws", !.hour = hora_central,
                  !.horas = horas, !.listed = TRUE,
                  !.pc = IF horas = <<>> THEN "returned" ELSE "glob"]

\* whether the call is in the copy loop on the file `name`
Copying(c, name) == c.pc = "copy" /\ ruta_local(c) = name

\* open(ruta_local, "wb") creates the file or cuts it to nothing
Truncated(files, name) == [files EXCEPT ![name] = "partial"]

\* a copy whose file is opened for writing by someone else: what it has
\* written is cut away, and it writes on from where it stands
Cut(w) == [w EXCEPT !.whole = FALSE, !.hole = FALSE]

\* what a copy that ran to its end leaves: the whole object, unless another
\* session truncated the file under the copy; then the file is whole only if
\* that session has already written past the point of truncation
Copied(files, name, whole) ==
  IF whole THEN {"complete"} ELSE {files[name], "complete"}

\* what a copy that raises leaves: the file as it is, or the whole object when
\* the copy has filled the hole before it raised
Broken(files, name, hole) ==
  IF hole THEN {files[name], "complete"} ELSE {files[name]}

\* a copy `w` of the file `name`, still under way and not cut since it opened
\* the file, when a copy it cut has run to its end leaving `state`: it has a
\* hole to fill when the file is not whole yet
Holed(w, under_way, state) ==
  IF under_way /\ w.whole /\ state = "partial" THEN [w EXCEPT !.hole = TRUE] ELSE w

\* the folder and the two copies after the copy loops under way (lines 110,
\* 265) have written on for a while: a copy that has a hole to fill may have
\* filled it
Written(files, a, o) ==
  LET a_fills == IF a.pc = "copy" /\ a.hole THEN BOOLEAN ELSE {FALSE}
      o_fills == IF o.busy /\ o.hole THEN BOOLEAN ELSE {FALSE}
      after_a(fa) == IF fa THEN [files EXCEPT ![ruta_local(a)] = "complete"] ELSE files
      after_o(f, fo) == IF fo THEN [f EXCEPT ![o.name] = "complete"] ELSE f
  IN {[disk |-> after_o(after_a(fa), fo),
       dl |-> IF fa THEN [a EXCEPT !.hole = FALSE] ELSE a,
       other |-> IF fo THEN [o EXCEPT !.hole = FALSE] ELSE o] :
        fa \in a_fills, fo \in o_fills}

\* how `with fs.open(key, "rb") as src, open(ruta_local, "wb") as dst` can go
\* on: fs.open raises; it returns the object; it returns the object and
\* open(ruta_local, "wb") raises; it returns the object and the local file is
\* opened too
OpenOutcomes == {"raises", "object", "local_raises", "both"}

\* how open(ruta_local, "wb") can go on: it raises OSError and leaves the
\* folder as it is, or it creates the file or cuts it to nothing
LocalOpenOutcomes == {"local_raises", "both"}

\* the call after open(ruta_local, "wb") has raised: the object was opened,
\* nothing was written
LocalOpenRaised(c) == [c EXCEPT !.opened = TRUE, !.raised = TRUE]

\* the call after open(ruta_local, "wb"): in the copy loop
OpenedLocal(c) ==
  [c EXCEPT !.pc = "copy", !.opened = TRUE, !.wrote = TRUE, !.whole = TRUE]

\* the other session's copy after this call has opened `name` for writing
CutOther(o, name) == IF o.busy /\ o.name = name THEN Cut(o) ELSE o

\* ---- animation mode (app.py) ------------------------------------------------
\* st.session_state: whether the keys frame_index and playing are set, and
\* their values
NoSession == [has |-> FALSE, frame_index |-> 0, playing |-> FALSE]

\* what st.slider does with a default value above max_value: it raises
\* StreamlitAPIException, or it widens its range to hold the value
SliderBehaviours == {"raises", "widens"}

\* the st.* call at which Streamlit stops the run because the user has asked
\* for a new one, if any: every call of lines 205-323 that sends an element.
\* "st.slider" is the speed slider (line 244), "st.slider#2" the frame slider
\* (line 253)
Interrupts ==
  {"none", "st.warning", "st.info", "st.columns", "st.button", "st.slider",
   "st.slider#2", "st.spinner", "st.pyplot", "st.markdown"}

\* the values the frame slider can return: its range, which the user may have
\* moved it over
SliderRange(n_frames, value) ==
  0..(IF value > n_frames - 1 THEN value ELSE n_frames - 1)

\* (frame_idx + 1) % n_frames
Advance(frame_idx, n_frames) == (frame_idx + 1) % n_frames

\* what descargar_glm_aws hands back (goes_plots.py:117-163): None, or the
\* path of a file of data/GLM
GlmPaths == {"None", "path"}

\* the run of the script in animation mode from the check of `frames` to the
\* choice of the frame (lines 205-267): ss is st.session_state, button the
\* value of st.button, idx the value the frame slider returns. value is the
\* frame_index handed to the slider and shown the index used on frames, -1
\* when the line is not reached; glm_path is "unset" before line 273;
\* stopped: Streamlit stopped the run at `line`. A widget checks its
\* arguments before it sends its element, and a run stopped at a widget does
\* not get its value. A run that has chosen its frame stands at line 273.
AnimationWidgets(ss, frames, button, idx, behaviour, interrupt) ==
  LET n_frames == Len(frames)
      after_init == IF ss.has THEN ss
            ELSE [has |-> TRUE, frame_index |-> n_frames - 1, playing |-> FALSE]
      after_button == IF button THEN [after_init EXCEPT !.playing = ~@] ELSE after_init
      after_slider == IF idx # after_button.frame_index
            THEN [after_button EXCEPT !.frame_index = idx, !.playing = FALSE]
            ELSE after_button
      value == after_button.frame_index
      shown == after_slider.frame_index
      End(s, v, i, f, error, line, stopped) ==
        [ss |-> s, value |-> v, idx |-> i, shown |-> f, glm_path |-> "unset",
         error |-> error, line |-> line, stopped |-> stopped]
  IN IF frames = <<>>
     THEN IF interrupt = "st.warning"
          THEN End(ss, -1, -1, -1, "none", 206, TRUE)
          ELSE End(ss, -1, -1, -1, "none", 210, FALSE)
     ELSE IF n_frames = 1
     THEN IF interrupt = "st.info"
          THEN End(after_init, -1, -1, 0, "none", 228, TRUE)
          ELSE End(after_init, -1, -1, 0, "none", 273, FALSE)
     ELSE IF interrupt = "st.columns"
     THEN End(after_init, -1, -1, -1, "none", 237, TRUE)
     ELSE IF interrupt = "st.button"
     THEN End(after_init, -1, -1, -1, "none", 240, TRUE)
     ELSE IF interrupt = "st.slider"
     THEN End(after_button, -1, -1, -1, "none", 244, TRUE)
     ELSE IF value > n_frames - 1 /\ behaviour = "raises"
     THEN End(after_button, value, -1, -1, "StreamlitAPIException", 253, FALSE)
     ELSE IF interrupt = "st.slider#2"
     THEN End(after_button, value, -1, -1, "none", 253, TRUE)
     ELSE IF shown > n_frames - 1
     THEN End(after_slider, value, idx, shown, "IndexError", 267, FALSE)
     ELSE End(after_slider, value, idx, shown, "none", 273, FALSE)

\* the run from st.spinner into plot_goes_band_chile (lines 287-290), which
\* opens the file of the frame (goes_plots.py:289) and raises on a file that
\* is not a whole NetCDF file; then it draws, and the run stands at line 290
AnimationPlot(run, frames, files, interrupt) ==
  IF interrupt = "st.spinner" THEN [run EXCEPT !.line = 287, !.stopped = TRUE]
  ELSE IF files[frames[run.shown + 1][2]] # "complete"
  THEN [run EXCEPT !.error = "OSError", !.line = 290]
  ELSE [run EXCEPT !.line = 290]

\* the run from the return of plot_goes_band_chile to its end or to
\* time.sleep (lines 297-318)
AnimationEnd(run, n_frames, interrupt) ==
  IF interrupt = "st.pyplot" THEN [run EXCEPT !.line = 297, !.stopped = TRUE]
  ELSE IF interrupt = "st.markdown"
  THEN [run EXCEPT !.line = IF n_frames = 1 THEN 301 ELSE 306, !.stopped = TRUE]
  ELSE [run EXCEPT !.line = IF n_frames > 1 /\ run.ss.playing THEN 318 ELSE 315]

\* whether the run waits inside descargar_glm_aws (line 277) or inside
\* plot_goes_band_chile (line 290)
Waits(run) == run.error = "none" /\ ~run.stopped /\ run.line \in {277, 290}

\* where a run that is drawing can stand next: still drawing, or on from
\* line 297
RunsFromPlot(run, n_frames, interrupt) == {run, AnimationEnd(run, n_frames, interrupt)}

\* where a run that has its glm_path can stand next
RunsFromSpinner(run, frames, files, interrupt) ==
  LET plot == AnimationPlot(run, frames, files, interrupt)
  IN IF Waits(plot) THEN RunsFromPlot(plot, Len(frames), interrupt) ELSE {plot}

\* where a run that has called descargar_glm_aws can stand next: the call
\* has handed back glm_path
RunsFromGlm(run, frames, files, interrupt) ==
  UNION {RunsFromSpinner([run EXCEPT !.glm_path = g], frames, files, interrupt) :
           g \in GlmPaths}

\* where the run can stand after lines 205-267: at its end if it ended
\* there; else glm_path is None, and if mostrar_glm (line 274) the script
\* calls descargar_glm_aws, waits in it and goes on with what it hands back
RunsFromWidgets(run, frames, files, mostrar_glm, interrupt) ==
  IF run.line # 273 THEN {run}
  ELSE IF mostrar_glm
  THEN {[run EXCEPT !.line = 277]} \cup RunsFromGlm(run, frames, files, interrupt)
  ELSE RunsFromSpinner([run EXCEPT !.glm_path = "None"], frames, files, interrupt)

\* the objects of the hour up to 01:00, filed by their start stamp
AnimKeys == {k \in InLayout : InWindow(strptime(k.name.jjj, k.name.hh, k.name.mm).dt, 1)}

\* no rerun has shown anything.  ran: the script has run from the check of
\* `frames` on, to its end or to time.sleep; frames: the list it got; prev:
\* the list of the rerun before; line: where the run ended or stands
NoUi ==
  [ran |-> FALSE, frames |-> <<>>, prev |-> <<>>, same |-> FALSE, was_playing |-> FALSE,
   start |-> 0, value |-> -1, idx |-> -1, shown |-> -1, glm_path |-> "unset",
   error |-> "none", line |-> 0, stopped |-> FALSE]

\* the run of the script as ui and st.session_state hold it
RunOf(u, ss) ==
  [ss |-> ss, value |-> u.value, idx |-> u.idx, shown |-> u.shown,
   glm_path |-> u.glm_path, error |-> u.error, line |-> u.line, stopped |-> u.stopped]

\* ui after the run has gone on to `run`
UiOf(u, run) ==
  [u EXCEPT !.ran = ~Waits(run), !.value = run.value, !.idx = run.idx,
            !.shown = run.shown, !.glm_path = run.glm_path, !.error = run.error,
            !.line = run.line, !.stopped = run.stopped]

\* ---- the state machine ----------------------------------------------------
NoRange ==
  [start |-> 0, stop |-> 0, step |-> 0, unit |-> 1, error |-> "none", y |-> <<>>]

NoArgs == [paletas |-> <<>>, extend |-> ""]

\* what a call of creates_palette hands back: its results or its exception
Outcome(r) ==
  [color_list |-> r.color_list, ticks |-> r.ticks, norm |-> r.norm, bounds |-> r.bounds,
   error |-> r.error, returned |-> r.returned]

NoHist ==
  [paletas |-> <<>>, heap |-> <<>>, acc_vals |-> <<>>, out |-> Outcome(NoCall),
   between |-> FALSE]

NoColors == [color_spec |-> ColorList(<<>>), n |-> 0, cols |-> <<>>]

Init ==
  /\ pc = "idle"
  /\ rng = NoRange
  /\ args = NoArgs
  /\ res = NoCall
  /\ cfs = NoColors
  /\ heap = <<>>
  /\ hist = NoHist
  /\ memo = {}
  /\ s3 = {}
  /\ disk = NoFiles
  /\ dl = NoDl
  /\ other = NoOther
  /\ session = NoSession
  /\ ui = NoUi

\* a call of range(start, stop, step), the arguments in units of 1/unit
CallRange ==
  /\ pc = "idle"
  /\ \E t \in RangeArgs :
       LET r == range(t[1], t[2], t[3], t[4])
       IN rng' = [start |-> t[1], stop |-> t[2], step |-> t[3], unit |-> t[4],
                  error |-> r.error, y |-> r.y]
  /\ pc' = "range"
  /\ UNCHANGED <<args, res, cfs, repeatVars, farVars>>

\* a call of _colors_from_spec(color_spec, n)
CallColorsFromSpec ==
  /\ pc = "idle"
  /\ \E color_spec \in ColorArgs, n \in 0..MaxN :
       cfs' = [color_spec |-> color_spec, n |-> n, cols |-> _colors_from_spec(color_spec, n)]
  /\ pc' = "colors"
  /\ UNCHANGED <<rng, args, res, repeatVars, farVars>>

\* the caller builds the segment list it will pass to creates_palette
BuildPaletas ==
  /\ pc = "idle"
  /\ \E n \in 0..MaxSegs, extend \in ExtendModes, hinted \in BOOLEAN :
       \E plain \in [1..n -> Segments] :
         LET paletas == IF hinted THEN WithHints(plain) ELSE plain
         IN /\ Len(Accumulate(EmptyAcc, paletas).all_vals) <= MaxTotal
            /\ args' = [paletas |-> paletas, extend |-> extend]
  /\ pc' = "args"
  /\ UNCHANGED <<rng, res, cfs, repeatVars, farVars>>

\* the call creates_palette(paletas, extend), from entry to return or raise
CallCreatesPalette ==
  /\ pc = "args"
  /\ \E order \in ArgSorts(Accumulate(EmptyAcc, args.paletas).all_vals) :
       res' = creates_palette(args.paletas, args.extend, order)
  /\ pc' = "palette"
  /\ UNCHANGED <<rng, args, cfs, repeatVars, farVars>>

\* the caller drops the results
Discard ==
  /\ pc \in {"range", "palette", "colors"}
  /\ pc' = "idle"
  /\ rng' = NoRange
  /\ args' = NoArgs
  /\ res' = NoCall
  /\ cfs' = NoColors
  /\ UNCHANGED <<repeatVars, farVars>>

Next == CallRange \/ CallColorsFromSpec \/ BuildPaletas \/ CallCreatesPalette \/ Discard

Spec == Init /\ [][Next]_vars

\* ---- helpers of the properties -------------------------------------------
Last(s) == s[Len(s)]

NonDecreasing(s) == \A i \in 1..(Len(s) - 1) : s[i] <= s[i + 1]

StrictlyAscending(s) == \A i \in 1..(Len(s) - 1) : s[i] < s[i + 1]

Elems(s) == {s[i] : i \in DOMAIN s}

\* the (value, colour) pairs of two parallel lists, and how often one occurs
Pairs(vs, cs) == [i \in DOMAIN vs |-> <<vs[i], cs[i]>>]

Count(s, x) == Cardinality({i \in DOMAIN s : s[i] = x})

WellFormed(pal) == Len(pal) >= 2

\* the list with the short segments removed
RECURSIVE WithoutShort(_)
WithoutShort(paletas) ==
  IF paletas = <<>> THEN <<>>
  ELSE IF WellFormed(Head(paletas))
       THEN <<Head(paletas)>> \o WithoutShort(Tail(paletas))
       ELSE WithoutShort(Tail(paletas))

\* the orderings of a list of segments
Reorderings(paletas) ==
  LET n == Len(paletas)
  IN {[i \in 1..n |-> paletas[f[i]]] :
        f \in {g \in [1..n -> 1..n] : \A i, j \in 1..n : i # j => g[i] # g[j]}}

\* a control-point list a LinearSegmentedColormap can be evaluated on:
\* positions start at 0, end at 1 and never decrease
CmapUsable(color_list) ==
  /\ color_list # <<>>
  /\ color_list[1][1] = Zero
  /\ Last(color_list)[1] = One
  /\ \A i \in 1..(Len(color_list) - 1) : RatLeq(color_list[i][1], color_list[i + 1][1])

\* ---- C1 -------------------------------------------------------------------
\* C1: whenever creates_palette has accumulated at least one value, the first
\* control point it passes to the colour mapping has position exactly 0 and
\* the last has position exactly 1, also when there is exactly one value.
C1_EndpointsPinned ==
  (pc = "palette" /\ res.acc_vals # <<>>) =>
    /\ res.color_list # <<>>
    /\ res.color_list[1][1] = Zero
    /\ Last(res.color_list)[1] = One

\* ---- C2 -------------------------------------------------------------------
\* C2: when every segment has fewer than 2 elements, creates_palette fails
\* with EmptyPaletteError, not with the numeric error of min() on empty data.
C2_EmptyPaletteError ==
  (pc = "palette" /\ \A i \in DOMAIN res.paletas : ~WellFormed(res.paletas[i])) =>
    /\ ~res.returned
    /\ res.error = "EmptyPaletteError"

\* ---- C3 -------------------------------------------------------------------
\* C3: a single segment with one colour and one value returns without
\* raising, and its control points form a usable mapping that is that one
\* colour everywhere.
C3_DegenerateUsable ==
  (/\ pc = "palette"
   /\ Len(res.paletas) = 1
   /\ WellFormed(res.paletas[1])
   /\ res.paletas[1][1].kind = "list"
   /\ Len(res.paletas[1][1].names) = 1
   /\ Len(res.paletas[1][2]) = 1) =>
    /\ res.returned
    /\ CmapUsable(res.color_list)
    /\ \A i \in DOMAIN res.color_list :
         res.color_list[i][2] = Color("rgba", to_rgba(res.paletas[1][1].names[1]), 1)

\* ---- C4 -------------------------------------------------------------------
\* C4: the boundaries creates_palette computes are strictly ascending, hold
\* exactly the raw values accumulated from the well-formed segments, and
\* the ticks equal the boundaries element for element.
C4_BoundariesSortedUnique ==
  (pc = "palette" /\ res.acc_vals # <<>>) =>
    /\ StrictlyAscending(res.bounds)
    /\ Elems(res.bounds) =
         UNION {Elems(res.paletas[i][2]) :
                  i \in {j \in DOMAIN res.paletas : WellFormed(res.paletas[j])}}
    /\ Len(res.ticks) = Len(res.bounds)
    /\ \A i \in DOMAIN res.bounds : res.ticks[i] = res.bounds[i]
    /\ res.returned => res.norm.boundaries = res.bounds

\* a returned palette whose segments overlap in value and arrive out of order
C4_Witness ==
  /\ pc = "palette"
  /\ res.returned
  /\ Len(res.bounds) >= 2
  /\ Len(res.bounds) < Len(res.acc_vals)
  /\ ~NonDecreasing(res.acc_vals)

\* ---- C5 -------------------------------------------------------------------
\* C5: for start <= stop and step > 0, range returns a sequence that starts
\* at start, has floor((stop-start)/step)+1 elements (one per grid point
\* start + k*step that does not pass stop), consecutive ones step apart.
\* start, stop, step and the points are counted in units of 1/unit.
C5_RangeGrid ==
  (pc = "range" /\ rng.start <= rng.stop /\ rng.step > 0) =>
    /\ rng.error = "none"
    /\ Len(rng.y) >= 1
    /\ rng.y[1] = rng.start
    /\ Len(rng.y) = Cardinality({k \in 0..(rng.stop - rng.start) :
                                   rng.start + k * rng.step <= rng.stop})
    /\ \A i \in 1..(Len(rng.y) - 1) : rng.y[i + 1] - rng.y[i] = rng.step

\* ---- C6 -------------------------------------------------------------------
\* C6: for start <= stop and step > 0, the last element of range is
\* start + step*floor((stop-start)/step); it never exceeds stop and equals
\* stop exactly when step divides stop - start (as 0.1 divides 0.3).
C6_RangeLast ==
  (pc = "range" /\ rng.start <= rng.stop /\ rng.step > 0) =>
    /\ rng.error = "none"
    /\ rng.y # <<>>
    /\ Last(rng.y) = rng.start + rng.step * ((rng.stop - rng.start) \div rng.step)
    /\ Last(rng.y) <= rng.stop
    /\ (Last(rng.y) = rng.stop) <=> ((rng.stop - rng.start) % rng.step = 0)

\* ---- C7 -------------------------------------------------------------------
\* C7: for every step > 0 and every start and stop, also stop < start, range
\* returns a sequence without raising.
C7_RangeTotal ==
  (pc = "range" /\ rng.step > 0) => rng.error = "none"

\* ---- C8 -------------------------------------------------------------------
\* C8: short segments are skipped without error: a list with at least one
\* well-formed segment gives the same accumulators, control points, ticks,
\* boundaries and outcome as the list with its short segments removed.
C8_ShortSegmentsSkipped ==
  (pc = "palette" /\ \E i \in DOMAIN res.paletas : WellFormed(res.paletas[i])) =>
    LET kept == WithoutShort(res.paletas)
    IN /\ res.error \notin {"IndexError"}
       /\ Accumulate(EmptyAcc, kept) = Accumulate(EmptyAcc, res.paletas)
       /\ creates_palette(kept, res.extend, res.order) = [res EXCEPT !.paletas = kept]

\* a returned palette whose list held a short segment among well-formed ones
C8_Witness ==
  /\ pc = "palette"
  /\ res.returned
  /\ \E i \in DOMAIN res.paletas : Len(res.paletas[i]) = 1
  /\ \E i \in DOMAIN res.paletas : WellFormed(res.paletas[i])

\* ---- C9 -------------------------------------------------------------------
\* C9: segments need not come in value order: the control points are in
\* nondecreasing raw-value order, and every reordering of the segment list
\* gives the same sorted values, boundaries, ticks and outcome.
C9_SegmentOrderIrrelevant ==
  pc = "palette" =>
    /\ NonDecreasing(res.all_vals)
    /\ Len(res.color_list) = Len(res.all_vals)
    /\ \A q \in Reorderings(res.paletas) :
         LET o == CHOOSE x \in ArgSorts(Accumulate(EmptyAcc, q).all_vals) : TRUE
             r == creates_palette(q, res.extend, o)
         IN /\ r.all_vals = res.all_vals
            /\ r.vals_norm = res.vals_norm
            /\ r.bounds = res.bounds
            /\ r.ticks = res.ticks
            /\ r.error = res.error
            /\ r.returned = res.returned

\* a returned palette whose first segment lies above its second
C9_Witness ==
  /\ pc = "palette"
  /\ res.returned
  /\ Len(res.paletas) = 2
  /\ WellFormed(res.paletas[1]) /\ WellFormed(res.paletas[2])
  /\ res.paletas[1][2] # <<>> /\ res.paletas[2][2] # <<>>
  /\ res.paletas[1][2][1] > Last(res.paletas[2][2])

\* ---- C10 ------------------------------------------------------------------
\* C10: the global sort only reorders pairs: the (value, colour) pairs after
\* the sort are those accumulated before it, each as often, and the sorted
\* values are ascending.
C10_SortKeepsPairs ==
  pc = "palette" =>
    LET before == Pairs(res.acc_vals, res.acc_cols)
        after == Pairs(res.all_vals, res.all_cols)
    IN /\ Len(res.acc_cols) = Len(res.acc_vals)
       /\ Len(res.all_cols) = Len(res.all_vals)
       /\ Len(after) = Len(before)
       /\ \A x \in Elems(before) \cup Elems(after) : Count(after, x) = Count(before, x)
       /\ NonDecreasing(res.all_vals)

\* a sort that moved pairs, with one value carrying two different colours
C10_Witness ==
  /\ pc = "palette"
  /\ res.returned
  /\ res.all_vals # res.acc_vals
  /\ \E i, j \in DOMAIN res.all_vals :
       /\ res.all_vals[i] = res.all_vals[j]
       /\ res.all_cols[i] # res.all_cols[j]

\* ---- C11 ------------------------------------------------------------------
\* the component-wise RGBA average of two named colours
Average(a, b) == Color("rgba", [j \in 1..4 |-> to_rgba(a)[j] + to_rgba(b)[j]], 2)

\* C11 as stated: for a colour list [A, B] and an odd number k of values, the
\* colour of the middle value (index (k-1)/2) is the RGBA average of A and B.
C11_MidpointAverage_AnyOdd ==
  (/\ pc = "colors"
   /\ cfs.color_spec.kind = "list"
   /\ Len(cfs.color_spec.names) = 2
   /\ cfs.n % 2 = 1) =>
    cfs.cols[(cfs.n - 1) \div 2 + 1] = Average(cfs.color_spec.names[1], cfs.color_spec.names[2])

\* C11, amended: for a colour list [A, B] and an odd number k >= 3 of values,
\* the colour of the middle value is the RGBA average of A and B; for k = 1
\* the only value gets A itself.
C11_MidpointAverage ==
  (/\ pc = "colors"
   /\ cfs.color_spec.kind = "list"
   /\ Len(cfs.color_spec.names) = 2
   /\ cfs.n % 2 = 1) =>
    IF cfs.n >= 3
    THEN cfs.cols[(cfs.n - 1) \div 2 + 1] =
           Average(cfs.color_spec.names[1], cfs.color_spec.names[2])
    ELSE cfs.cols = <<Color("rgba", to_rgba(cfs.color_spec.names[1]), 1)>>

\* two different colours over five values: the third is their average
C11_Witness ==
  /\ pc = "colors"
  /\ cfs.color_spec = ColorList(<<"black", "white">>)
  /\ cfs.n = 5
  /\ cfs.cols[3] = [cm |-> "rgba", c |-> <<1, 1, 1, 2>>, d |-> 2]

\* ---- C12 ------------------------------------------------------------------
\* the blend (1 - fn/fd) * c[i0] + (fn/fd) * c[i1] of two listed colours
Blend(names, i0, i1, fn, fd) ==
  Color("rgba", [j \in 1..4 |-> (fd - fn) * to_rgba(names[i0 + 1])[j]
                                 + fn * to_rgba(names[i1 + 1])[j]], fd)

\* C12: for a colour list of length m >= 2 and n values, _colors_from_spec
\* returns exactly n colours, each a blend (1-frac)*c[i0] + frac*c[i1] with
\* 0 <= i0 <= i1 <= m-1, i1 <= i0+1 and 0 <= frac < 1; the first is the first
\* listed colour and, for n >= 2, the last is the last listed colour.
C12_BlendOfNeighbours ==
  (/\ pc = "colors"
   /\ cfs.color_spec.kind = "list"
   /\ Len(cfs.color_spec.names) >= 2) =>
    LET names == cfs.color_spec.names
        m == Len(names)
        n == cfs.n
    IN /\ Len(cfs.cols) = n
       /\ \A k \in 1..n :
            \E i0 \in 0..(m - 1) :
              \E i1 \in {i \in {i0, i0 + 1} : i <= m - 1} :
                \E fd \in 1..(IF n > 2 THEN n - 1 ELSE 1) :
                  \E fn \in 0..(fd - 1) :
                    cfs.cols[k] = Blend(names, i0, i1, fn, fd)
       /\ n >= 1 => cfs.cols[1] = Color("rgba", to_rgba(names[1]), 1)
       /\ n >= 2 => cfs.cols[n] = Color("rgba", to_rgba(names[m]), 1)

\* three colours over four values: inner values fall between list entries
C12_Witness ==
  /\ pc = "colors"
  /\ cfs.color_spec = ColorList(<<"white", "red", "black">>)
  /\ cfs.n = 4
  /\ cfs.cols[2] = Blend(cfs.color_spec.names, 0, 1, 2, 3)
  /\ cfs.cols[3] = Blend(cfs.color_spec.names, 1, 2, 1, 3)
  /\ cfs.cols[2] # cfs.cols[1]

\* ---- C13 ------------------------------------------------------------------
\* where the values of segment j start in the accumulators
SegOffset(paletas, j) == Len(Accumulate(EmptyAcc, SubSeq(paletas, 1, j - 1)).all_vals)

SingleColour(pal) ==
  /\ WellFormed(pal)
  /\ pal[1].kind = "list"
  /\ Len(pal[1].names) = 1

\* C13: for a colour list of length 1 and a value sequence of length n, each
\* of the n control points of the segment carries exactly that colour: the
\* call returns n copies of it, the loop stores them at the segment's values,
\* and each value of the segment is a control point with that colour.
C13_SingleColourRepeated ==
  /\ (pc = "colors" /\ cfs.color_spec.kind = "list" /\ Len(cfs.color_spec.names) = 1) =>
       /\ Len(cfs.cols) = cfs.n
       /\ \A k \in 1..cfs.n : cfs.cols[k] = Color("rgba", to_rgba(cfs.color_spec.names[1]), 1)
  /\ pc = "palette" =>
       \A j \in DOMAIN res.paletas :
         SingleColour(res.paletas[j]) =>
           LET pal == res.paletas[j]
               off == SegOffset(res.paletas, j)
               col == Color("rgba", to_rgba(pal[1].names[1]), 1)
           IN \A k \in 1..Len(pal[2]) :
                /\ res.acc_vals[off + k] = pal[2][k]
                /\ res.acc_cols[off + k] = col
                /\ \E i \in DOMAIN res.all_vals :
                     res.all_vals[i] = pal[2][k] /\ res.all_cols[i] = col
                /\ res.returned =>
                     \E i \in DOMAIN res.color_list : res.color_list[i][2] = col

\* a returned palette whose second segment has one colour over three values
C13_Witness ==
  /\ pc = "palette"
  /\ res.returned
  /\ Len(res.paletas) = 2
  /\ WellFormed(res.paletas[1])
  /\ Len(res.paletas[1][2]) >= 1
  /\ ~SingleColour(res.paletas[1])
  /\ SingleColour(res.paletas[2])
  /\ Len(res.paletas[2][2]) = 3

\* ---- two equal calls of creates_palette ------------------------------------
\* The value sequence of a segment is an object of the caller: a Python list or
\* an ndarray of floats (what ccp.range returns). In the list that is passed
\* twice a segment [colors, values] holds the identity of its value sequence,
\* and the call works on the objects as its statements do: some hand the
\* object on, some make a new one, some write into the object they are given.
ArrayKinds == {"list", "ndarray"}

\* the identity of an object made inside the call
New == 0

\* np.asarray(a, dtype=float) (lines 92, 99): a itself when it is an ndarray of
\* floats, a new array otherwise
asarray(mem, a) == IF a # New /\ mem[a].kind = "ndarray" THEN a ELSE New

\* a.tolist() (line 96): a new list
tolist(a) == New

\* a[order] with an index array (line 103): a new array
take(a) == New

\* (a - vmin) / denom (line 111): a new array
arithmetic(a) == New

\* np.clip(a, 0.0, 1.0) with no out= (line 114): a new array
clip(a) == New

\* a.extend(items) (lines 96-97) writes into a: the caller's objects after it
list_extend(mem, a, items) ==
  IF a = New THEN mem ELSE [mem EXCEPT ![a].data = @ \o items]

\* a[i] = v (lines 117-118) writes into a: the caller's objects after it
setitem(mem, a, i, v) ==
  IF a = New THEN mem ELSE [mem EXCEPT ![a].data[i] = v]

\* the segment list as the call reads it: pal[1] is what the object holds now
Deref(mem, paletas) ==
  [i \in DOMAIN paletas |->
     IF Len(paletas[i]) < 2 THEN paletas[i]
     ELSE [paletas[i] EXCEPT ![2] = mem[paletas[i][2]].data]]

\* the loop of lines 87-97 on the objects: vals is np.asarray(pal[1]), and
\* what vals.tolist() returns is appended to the list `into`
RECURSIVE LoopWrites(_, _, _)
LoopWrites(mem, into, paletas) ==
  IF paletas = <<>> THEN mem
  ELSE LET pal == Head(paletas)
       IN IF Len(pal) < 2 THEN LoopWrites(mem, into, Tail(paletas))
          ELSE LET vals == asarray(mem, pal[2])
                   items == IF vals = New THEN mem[pal[2]].data ELSE mem[vals].data
               IN LoopWrites(list_extend(mem, into, items), into, Tail(paletas))

\* the caller's objects after a call that ended with the locals r: every
\* statement of the call that writes into an object, applied to the object
\* it writes into. all_vals is the list made at line 84, then the array made
\* from it at line 99 and reordered at line 103; vals_norm is made at line 111
\* and again at line 114, and lines 117-118 write 0.0 and 1.0 to its two ends
\* (they run when the loop did not raise and there is a value)
Effects(mem, paletas, r) ==
  LET all_vals_list == New
      after_loop == LoopWrites(mem, all_vals_list, paletas)
      all_vals == take(asarray(after_loop, all_vals_list))
      vals_norm == clip(arithmetic(all_vals))
      n == Len(r.vals_norm)
  IN IF r.acc_vals = <<>> \/ r.line = 92 THEN after_loop
     ELSE setitem(setitem(after_loop, vals_norm, 1, 0), vals_norm, n, 1)

\* the segment lists that are passed twice, by what they hold
RepeatLists ==
  {p \in UNION {[1..n -> Segments] : n \in 0..MaxSegs} :
     Len(Accumulate(EmptyAcc, p).all_vals) <= MaxRepeatTotal}

\* the objects of such a list: one value sequence for each full segment, all
\* Python lists or all ndarrays
ObjectsOf(p) ==
  {[i \in DOMAIN p |->
      IF Len(p[i]) >= 2 THEN [kind |-> kind, data |-> p[i][2]]
      ELSE [kind |-> "list", data |-> <<>>]] : kind \in ArrayKinds}

\* the list itself: each full segment holds the identity of its values
RefsOf(p) ==
  [i \in DOMAIN p |-> IF Len(p[i]) >= 2 THEN [p[i] EXCEPT ![2] = i] ELSE p[i]]

\* the segment lists of a call made between the two, and the objects they
\* are made of: no segment, a segment with an array of its own, or a segment
\* with one of the arrays of the list that is passed twice
BetweenLists(mem) ==
  {[mem |-> mem, paletas |-> <<>>],
   [mem |-> Append(mem, [kind |-> "ndarray", data |-> ExtraHint]),
    paletas |-> <<<<ColorList(<<"red">>), Len(mem) + 1>>>>]}
  \cup {[mem |-> mem, paletas |-> <<<<ColorList(<<"red">>), a>>>>] :
          a \in {b \in DOMAIN mem : mem[b].data # <<>>}}

\* np.argsort is a function of its argument: an array it has sorted before gets
\* the index order it got then, any other array one of its sorting orders
ArgSortOf(seen, vals) ==
  IF \E e \in seen : e[1] = vals
  THEN {e[2] : e \in {f \in seen : f[1] = vals}}
  ELSE ArgSorts(vals)

\* the caller builds a segment list it will pass twice
BuildRepeatArgs ==
  /\ pc = "idle"
  /\ \E p \in RepeatLists, extend \in ExtendModes :
       /\ args' = [paletas |-> RefsOf(p), extend |-> extend]
       /\ \E mem \in ObjectsOf(p) : heap' = mem
  /\ pc' = "twice"
  /\ UNCHANGED <<rng, res, cfs, hist, memo, farVars>>

\* the first call creates_palette(paletas, extend)
FirstCall ==
  /\ pc = "twice"
  /\ LET paletas == Deref(heap, args.paletas)
         vals == Accumulate(EmptyAcc, paletas).all_vals
     IN \E order \in ArgSortOf(memo, vals) :
          /\ res' = creates_palette(paletas, args.extend, order)
          /\ heap' = Effects(heap, args.paletas, res')
          /\ memo' = memo \cup {<<vals, order>>}
          /\ hist' = [paletas |-> paletas, heap |-> heap,
                      acc_vals |-> res'.acc_vals, out |-> Outcome(res'),
                      between |-> FALSE]
  /\ pc' = "called"
  /\ UNCHANGED <<rng, args, cfs, farVars>>

\* another call of creates_palette between the two, with a list of its own
BetweenCall ==
  /\ pc = "called"
  /\ \E b \in BetweenLists(heap), extend \in ExtendModes :
       LET paletas == Deref(b.mem, b.paletas)
           vals == Accumulate(EmptyAcc, paletas).all_vals
       IN \E order \in ArgSortOf(memo, vals) :
            /\ res' = creates_palette(paletas, extend, order)
            /\ heap' = SubSeq(Effects(b.mem, b.paletas, res'), 1, Len(heap))
            /\ memo' = memo \cup {<<vals, order>>}
  /\ hist' = [hist EXCEPT !.between = TRUE]
  /\ pc' = "between"
  /\ UNCHANGED <<rng, args, cfs, farVars>>

\* the second call creates_palette(paletas, extend), on the same list
RepeatCall ==
  /\ pc \in {"called", "between"}
  /\ LET paletas == Deref(heap, args.paletas)
         vals == Accumulate(EmptyAcc, paletas).all_vals
     IN \E order \in ArgSortOf(memo, vals) :
          /\ res' = creates_palette(paletas, args.extend, order)
          /\ heap' = Effects(heap, args.paletas, res')
          /\ memo' = memo \cup {<<vals, order>>}
  /\ pc' = "repeated"
  /\ UNCHANGED <<rng, args, cfs, hist, farVars>>

NextRepeat == BuildRepeatArgs \/ FirstCall \/ BetweenCall \/ RepeatCall

SpecRepeat == Init /\ [][NextRepeat]_vars

\* ---- C14 ------------------------------------------------------------------
\* C14: creates_palette keeps no state between calls: a second call on the
\* segment list and extend mode of the first hands back the control points,
\* ticks, boundaries and outcome of the first, whatever call was made in
\* between, its accumulators hold what those of the first held, and after the
\* calls the caller's segment list and value sequences hold what they held
\* before the first.
C14_SecondCallSameResult ==
  pc = "repeated" =>
    /\ Outcome(res) = hist.out
    /\ res.acc_vals = hist.acc_vals
    /\ heap = hist.heap
    /\ Deref(heap, args.paletas) = hist.paletas

\* a returned second call on a list in which one value carries two colours
\* and a value sequence is an ndarray, which line 92 hands on as it is, after
\* a call in between that was passed the same ndarray
C14_Witness ==
  /\ pc = "repeated"
  /\ hist.between
  /\ res.returned
  /\ \E i, j \in DOMAIN res.all_vals :
       /\ res.all_vals[i] = res.all_vals[j]
       /\ res.all_cols[i] # res.all_cols[j]
  /\ \E i \in DOMAIN args.paletas :
       /\ Len(args.paletas[i]) >= 2
       /\ asarray(heap, args.paletas[i][2]) = args.paletas[i][2]
  /\ \E e \in memo :
       \E a \in DOMAIN heap : e[1] = heap[a].data /\ e[1] # res.acc_vals

\* ---- C15 ------------------------------------------------------------------
\* the segment list with every segment cut to its first two elements
FirstTwo(paletas) ==
  [i \in DOMAIN paletas |->
     IF Len(paletas[i]) > 2 THEN SubSeq(paletas[i], 1, 2) ELSE paletas[i]]

\* C15: the elements of a segment after the first two are ignored: a call on
\* segments [c, v, x] accumulates the values and colours, and gives the control
\* points, ticks and boundaries, of the call on the segments [c, v].
C15_ExtraElementsIgnored ==
  pc = "palette" =>
    LET plain == FirstTwo(args.paletas)
        acc == Accumulate(EmptyAcc, plain)
    IN /\ res.acc_vals = acc.all_vals
       /\ res.acc_cols = acc.all_cols
       /\ Outcome(res) = Outcome(creates_palette(plain, args.extend, res.order))

\* a returned call on a list with a three-element segment whose third element
\* differs from its values
C15_Witness ==
  /\ pc = "palette"
  /\ res.returned
  /\ \E i \in DOMAIN args.paletas :
       /\ Len(args.paletas[i]) = 3
       /\ args.paletas[i][3] # args.paletas[i][2]
  /\ FirstTwo(args.paletas) # args.paletas

\* ---- the download calls -----------------------------------------------------
\* The session calls one download function at a time; the call takes one step
\* for each access to the bucket or to the folder, and between its steps
\* objects appear in the bucket and another session, which runs the same
\* functions on the same folder, writes files.

\* a step leaves the folder `files`, the call `a` and the other session's copy
\* `o`; the copy loops under way may have written on meanwhile
Step(files, a, o) ==
  \E w \in Written(files, a, o) :
    /\ disk' = w.disk
    /\ dl' = w.dl
    /\ other' = w.other

\* a new object appears in the bucket
Publish ==
  /\ Cardinality(s3) < MaxKeys
  /\ \E k \in AllKeys \ s3 : s3' = s3 \cup {k}
  /\ Step(disk, dl, other)
  /\ UNCHANGED <<animVars, paletteVars, repeatVars>>

\* a copy loop under way writes on and fills the hole at the start of its file
\* (shutil.copyfileobj, lines 110, 265)
CopyLoopWrites ==
  /\ \E w \in Written(disk, dl, other) :
       /\ w.disk # disk
       /\ disk' = w.disk
       /\ dl' = w.dl
       /\ other' = w.other
  /\ UNCHANGED <<s3, animVars, paletteVars, repeatVars>>

\* another session, having listed a key and found its file absent, opens the
\* object and the local file (lines 109, 264): the file is created or cut to
\* nothing, whatever has been written to it since that test
OtherSessionOpens ==
  /\ ~other.busy
  /\ \E k \in s3 :
       Step(Truncated(disk, k.name),
            IF Copying(dl, k.name) THEN Cut(dl) ELSE dl,
            [busy |-> TRUE, name |-> k.name, whole |-> TRUE, hole |-> FALSE])
  /\ UNCHANGED <<s3, animVars, paletteVars, repeatVars>>

\* the copy of the other session runs to its end or breaks (lines 110, 265)
OtherSessionCopyEnds ==
  /\ other.busy
  /\ \E ok \in BOOLEAN :
       IF ok
       THEN \E state \in Copied(disk, other.name, other.whole) :
              Step([disk EXCEPT ![other.name] = state],
                   Holed(dl, Copying(dl, other.name), state), NoOther)
       ELSE \E state \in Broken(disk, other.name, other.hole) :
              Step([disk EXCEPT ![other.name] = state], dl, NoOther)
  /\ UNCHANGED <<s3, animVars, paletteVars, repeatVars>>

\* a call descargar_goes_aws(year, day_of_year, hour, band) is entered
CallDescargarGoesAws ==
  /\ dl.pc \in {"idle", "returned"}
  /\ \E hour \in 0..MaxHour :
       Step(disk,
            [NoDl EXCEPT !.fn = "descargar_goes_aws", !.pc = "glob", !.hour = hour,
                         !.horas = <<hour>>],
            other)
  /\ UNCHANGED <<s3, animVars, paletteVars, repeatVars>>

\* a call descargar_goes_serie_aws(year, day_of_year, hora_central, n_horas,
\* band) is entered, for no hour, one hour or two hours back: the loop over
\* `horas` calls descargar_goes_aws for each hour it does not skip
CallDescargarGoesSerieAws ==
  /\ dl.pc \in {"idle", "returned"}
  /\ \E hora_central \in 0..MaxHour, n_horas \in 0..2 :
       LET horas == HoursVisited(Horas(hora_central, n_horas))
       IN Step(disk,
               [NoDl EXCEPT !.fn = "descargar_goes_serie_aws", !.hour = hora_central,
                            !.horas = horas,
                            !.pc = IF horas = <<>> THEN "returned" ELSE "glob"],
               other)
  /\ UNCHANGED <<s3, animVars, paletteVars, repeatVars>>

\* descargar_goes_aws lists the bucket (lines 86-98)
GoesAwsGlob ==
  /\ dl.fn \in {"descargar_goes_aws", "descargar_goes_serie_aws"}
  /\ dl.pc = "glob"
  /\ \E list_ok \in BOOLEAN :
       LET keys == glob(s3, Head(dl.horas))
       IN Step(disk,
               IF ~list_ok THEN Return([dl EXCEPT !.listed = FALSE], <<>>)
               ELSE IF keys = <<>>
               THEN Return([dl EXCEPT !.listed = TRUE, !.keys = keys], <<>>)
               ELSE [dl EXCEPT !.listed = TRUE, !.keys = keys, !.pc = "exists"],
               other)
  /\ UNCHANGED <<s3, animVars, paletteVars, repeatVars>>

\* descargar_goes_aws tests for the local file (lines 100-105)
GoesAwsExists ==
  /\ dl.fn \in {"descargar_goes_aws", "descargar_goes_serie_aws"}
  /\ dl.pc = "exists"
  /\ LET c == [dl EXCEPT !.seen = disk[ruta_local(dl)]]
     IN Step(disk,
             IF exists(disk, ruta_local(dl)) THEN Return(c, <<ruta_local(dl)>>)
             ELSE [c EXCEPT !.pc = "open"],
             other)
  /\ UNCHANGED <<s3, animVars, paletteVars, repeatVars>>

\* the with statement of line 109 opens the object: fs.open raises, or it
\* returns and the call stands before open(ruta_local, "wb"), or that file is
\* opened as well and the copy loop begins
GoesAwsOpen ==
  /\ dl.fn \in {"descargar_goes_aws", "descargar_goes_serie_aws"}
  /\ dl.pc = "open"
  /\ \E outcome \in OpenOutcomes :
       CASE outcome = "raises" ->
              Step(disk, Return([dl EXCEPT !.opened = TRUE, !.raised = TRUE], <<>>),
                   other)
         [] outcome = "object" ->
              Step(disk, [dl EXCEPT !.pc = "wopen", !.opened = TRUE], other)
         [] outcome = "local_raises" ->
              Step(disk, Return(LocalOpenRaised(dl), <<>>), other)
         [] outcome = "both" ->
              Step(Truncated(disk, ruta_local(dl)), OpenedLocal(dl),
                   CutOther(other, ruta_local(dl)))
  /\ UNCHANGED <<s3, animVars, paletteVars, repeatVars>>

\* open(ruta_local, "wb") of line 109 raises, and the call returns None with
\* nothing written (lines 111-113), or it creates the file or cuts it to
\* nothing
GoesAwsOpenLocal ==
  /\ dl.fn \in {"descargar_goes_aws", "descargar_goes_serie_aws"}
  /\ dl.pc = "wopen"
  /\ \E outcome \in LocalOpenOutcomes :
       CASE outcome = "local_raises" ->
              Step(disk, Return(LocalOpenRaised(dl), <<>>), other)
         [] outcome = "both" ->
              Step(Truncated(disk, ruta_local(dl)), OpenedLocal(dl),
                   CutOther(other, ruta_local(dl)))
  /\ UNCHANGED <<s3, animVars, paletteVars, repeatVars>>

\* shutil.copyfileobj runs to its end or raises (lines 110-115)
GoesAwsCopy ==
  /\ dl.fn \in {"descargar_goes_aws", "descargar_goes_serie_aws"}
  /\ dl.pc = "copy"
  /\ \E ok \in BOOLEAN :
       IF ok
       THEN \E state \in Copied(disk, ruta_local(dl), dl.whole) :
              Step([disk EXCEPT ![ruta_local(dl)] = state],
                   Return(dl, <<ruta_local(dl)>>),
                   Holed(other, other.busy /\ other.name = ruta_local(dl), state))
       ELSE \E state \in Broken(disk, ruta_local(dl), dl.hole) :
              Step([disk EXCEPT ![ruta_local(dl)] = state],
                   Return([dl EXCEPT !.raised = TRUE], <<>>), other)
  /\ UNCHANGED <<s3, animVars, paletteVars, repeatVars>>

\* a call descargar_goes_ultima_hora_aws(year, day_of_year, hora_central,
\* band) is entered
CallDescargarGoesUltimaHoraAws ==
  /\ dl.pc \in {"idle", "returned"}
  /\ \E hora_central \in 0..MaxHour : Step(disk, EnterUltimaHora(hora_central), other)
  /\ UNCHANGED <<s3, animVars, paletteVars, repeatVars>>

\* descargar_goes_ultima_hora_aws lists one hour (lines 191-206) and, after
\* the last one, parses, filters and sorts (lines 208-256)
UltimaHoraGlob ==
  /\ dl.fn = "descargar_goes_ultima_hora_aws"
  /\ dl.pc = "glob"
  /\ \E list_ok \in BOOLEAN :
       LET ks == IF list_ok THEN glob(s3, Head(dl.horas)) ELSE <<>>
           keys_todas == dl.keys \o ks
           rest == Tail(dl.horas)
           c == [dl EXCEPT !.keys = keys_todas, !.horas = rest,
                           !.listed = @ /\ list_ok]
           frames_filtrados == FramesFiltrados(keys_todas, dl.hour)
       IN Step(disk,
               IF rest # <<>> THEN c
               ELSE [c EXCEPT !.todo = frames_filtrados,
                              !.pc = IF frames_filtrados = <<>> THEN "returned"
                                     ELSE "exists"],
               other)
  /\ UNCHANGED <<s3, animVars, paletteVars, repeatVars>>

\* descargar_goes_ultima_hora_aws tests for the local file of the next frame
\* (lines 258-262, 270)
UltimaHoraExists ==
  /\ dl.fn = "descargar_goes_ultima_hora_aws"
  /\ dl.pc = "exists"
  /\ LET c == [dl EXCEPT !.seen = disk[ruta_local(dl)]]
     IN Step(disk,
             IF ~exists(disk, ruta_local(dl)) THEN [c EXCEPT !.pc = "open"]
             ELSE NextFrame(c, TRUE),
             other)
  /\ UNCHANGED <<s3, animVars, paletteVars, repeatVars>>

\* the with statement of line 264 opens the object: fs.open raises and the
\* frame is skipped (lines 266-268), or it returns and the call stands before
\* open(ruta_local, "wb"), or that file is opened as well
UltimaHoraOpen ==
  /\ dl.fn = "descargar_goes_ultima_hora_aws"
  /\ dl.pc = "open"
  /\ \E outcome \in OpenOutcomes :
       CASE outcome = "raises" ->
              Step(disk, NextFrame([dl EXCEPT !.opened = TRUE, !.raised = TRUE], FALSE),
                   other)
         [] outcome = "object" ->
              Step(disk, [dl EXCEPT !.pc = "wopen", !.opened = TRUE], other)
         [] outcome = "local_raises" ->
              Step(disk, NextFrame(LocalOpenRaised(dl), FALSE), other)
         [] outcome = "both" ->
              Step(Truncated(disk, ruta_local(dl)), OpenedLocal(dl),
                   CutOther(other, ruta_local(dl)))
  /\ UNCHANGED <<s3, animVars, paletteVars, repeatVars>>

\* open(ruta_local, "wb") of line 264 raises, and the frame is skipped with
\* nothing written (lines 266-268), or it creates the file or cuts it to
\* nothing
UltimaHoraOpenLocal ==
  /\ dl.fn = "descargar_goes_ultima_hora_aws"
  /\ dl.pc = "wopen"
  /\ \E outcome \in LocalOpenOutcomes :
       CASE outcome = "local_raises" ->
              Step(disk, NextFrame(LocalOpenRaised(dl), FALSE), other)
         [] outcome = "both" ->
              Step(Truncated(disk, ruta_local(dl)), OpenedLocal(dl),
                   CutOther(other, ruta_local(dl)))
  /\ UNCHANGED <<s3, animVars, paletteVars, repeatVars>>

\* shutil.copyfileobj runs to its end and the frame is appended, or it raises
\* and the frame is skipped (lines 265-270)
UltimaHoraCopy ==
  /\ dl.fn = "descargar_goes_ultima_hora_aws"
  /\ dl.pc = "copy"
  /\ \E ok \in BOOLEAN :
       IF ok
       THEN \E state \in Copied(disk, ruta_local(dl), dl.whole) :
              Step([disk EXCEPT ![ruta_local(dl)] = state], NextFrame(dl, TRUE),
                   Holed(other, other.busy /\ other.name = ruta_local(dl), state))
       ELSE \E state \in Broken(disk, ruta_local(dl), dl.hole) :
              Step([disk EXCEPT ![ruta_local(dl)] = state],
                   NextFrame([dl EXCEPT !.raised = TRUE], FALSE), other)
  /\ UNCHANGED <<s3, animVars, paletteVars, repeatVars>>

NextDownload ==
  \/ Publish
  \/ CopyLoopWrites
  \/ OtherSessionOpens
  \/ OtherSessionCopyEnds
  \/ CallDescargarGoesAws
  \/ CallDescargarGoesSerieAws
  \/ GoesAwsGlob
  \/ GoesAwsExists
  \/ GoesAwsOpen
  \/ GoesAwsOpenLocal
  \/ GoesAwsCopy
  \/ CallDescargarGoesUltimaHoraAws
  \/ UltimaHoraGlob
  \/ UltimaHoraExists
  \/ UltimaHoraOpen
  \/ UltimaHoraOpenLocal
  \/ UltimaHoraCopy

SpecDownload == Init /\ [][NextDownload]_vars

\* ---- C16 ------------------------------------------------------------------
\* C16: descargar_goes_ultima_hora_aws returns its frames in ascending order
\* of time, each time lies between one hour before hora_central and
\* hora_central of the requested day, and each path is a file of the local
\* folder.
C16_FramesOrderedInWindowOnDisk ==
  dl.fn = "descargar_goes_ultima_hora_aws" =>
    LET central == ((day_of_year * 24) + dl.hour) * 60
    IN /\ \A i, j \in DOMAIN dl.frames : i < j => dl.frames[i][1] <= dl.frames[j][1]
       /\ \A i \in DOMAIN dl.frames :
            /\ central - 60 <= dl.frames[i][1]
            /\ dl.frames[i][1] <= central
            /\ disk[dl.frames[i][2]] # "absent"

\* two frames are returned, listed in the other order, the first copied by
\* this call and the second found in the folder
C16_Witness ==
  /\ dl.fn = "descargar_goes_ultima_hora_aws"
  /\ dl.pc = "returned"
  /\ Len(dl.frames) = 2
  /\ Len(dl.keys) = 2
  /\ dl.keys[1].name = dl.frames[2][2]
  /\ dl.wrote
  /\ dl.seen \in {"partial", "complete"}

\* ---- C17 ------------------------------------------------------------------
\* C17: descargar_goes_aws copies only when the file is not there: if the
\* local file of the first listed key exists, the call returns its path
\* without opening the object and without writing to the folder; and it
\* returns None when the listing fails, when no key is listed, or when the
\* copy fails.
C17_CopyOnlyWhenAbsent ==
  (dl.fn = "descargar_goes_aws" /\ dl.pc = "returned") =>
    /\ dl.seen \in {"partial", "complete"} =>
         /\ dl.ret = <<dl.keys[1].name>>
         /\ ~dl.opened
         /\ ~dl.wrote
    /\ dl.opened => dl.listed /\ dl.keys # <<>> /\ dl.seen = "absent"
    /\ dl.wrote => dl.opened
    /\ (~dl.listed \/ dl.keys = <<>> \/ dl.raised) => dl.ret = <<>>
    /\ dl.ret = <<>> => (~dl.listed \/ dl.keys = <<>> \/ dl.raised)

\* a call that finds the whole file of the first of two keys in the folder
C17_Witness ==
  /\ dl.fn = "descargar_goes_aws"
  /\ dl.pc = "returned"
  /\ dl.listed
  /\ Len(dl.keys) = 2
  /\ dl.seen = "complete"
  /\ dl.ret = <<dl.keys[1].name>>
  /\ disk[dl.keys[2].name] = "absent"

\* ---- C20 ------------------------------------------------------------------
\* C20: every path descargar_goes_aws returns is a complete copy of the
\* object, also after calls whose copy failed.
C20_ReturnedFileComplete ==
  (dl.fn = "descargar_goes_aws" /\ dl.pc = "returned" /\ dl.ret # <<>>) =>
    disk[dl.ret[1]] = "complete"

\* ---- the animation reruns ---------------------------------------------------
\* a new object of the hour appears in the bucket
PublishFrame ==
  /\ \E k \in AnimKeys \ s3 : s3' = s3 \cup {k}
  /\ Step(disk, dl, other)
  /\ UNCHANGED <<animVars, paletteVars, repeatVars>>

\* a rerun of app.py in animation mode begins, the run before having ended:
\* the sidebar gives the hour and the script calls
\* descargar_goes_ultima_hora_aws (lines 195-203)
RerunAnimation ==
  /\ dl.pc = "idle"
  /\ ui.line # 318
  /\ ~Waits(RunOf(ui, session))
  /\ \E hora \in 0..MaxHour : Step(disk, EnterUltimaHora(hora), other)
  /\ ui' = [NoUi EXCEPT !.prev = ui.frames]
  /\ UNCHANGED <<s3, session, paletteVars, repeatVars>>

\* the call has returned and the script runs on from line 205: the button
\* and the slider give what the user did, the sidebar whether mostrar_glm is
\* checked, Streamlit may stop the run; the run comes to its end, to
\* time.sleep, or to one of the calls it waits in
ShowAnimation ==
  /\ dl.fn = "descargar_goes_ultima_hora_aws"
  /\ dl.pc = "returned"
  /\ LET frames == dl.frames
         n_frames == Len(frames)
         start == IF session.has THEN session.frame_index ELSE n_frames - 1
         begun == [NoUi EXCEPT !.frames = frames, !.prev = ui.prev,
                               !.same = (ui.prev = frames),
                               !.was_playing = session.playing, !.start = start]
         inputs == BOOLEAN \X SliderBehaviours \X Interrupts \X BOOLEAN \X
                   (IF n_frames >= 2 THEN SliderRange(n_frames, start) ELSE {-1})
         button(i) == i[1]
         behaviour(i) == i[2]
         interrupt(i) == i[3]
         mostrar_glm(i) == i[4]
         idx(i) == i[5]
     IN \E run \in UNION {RunsFromWidgets(
                             AnimationWidgets(session, frames, button(i), idx(i),
                                              behaviour(i), interrupt(i)),
                             frames, disk, mostrar_glm(i), interrupt(i)) :
                           i \in inputs} :
          /\ session' = run.ss
          /\ ui' = UiOf(begun, run)
  /\ Step(disk, NoDl, other)
  /\ UNCHANGED <<s3, paletteVars, repeatVars>>

\* the call the run waits in returns, descargar_glm_aws (lines 277-282) or
\* plot_goes_band_chile (line 290), and the script runs on
ContinueAnimation ==
  /\ Waits(RunOf(ui, session))
  /\ \E run \in UNION {IF ui.line = 277
                        THEN RunsFromGlm(RunOf(ui, session), ui.frames, disk, interrupt)
                        ELSE {AnimationEnd(RunOf(ui, session), Len(ui.frames),
                                           interrupt)} :
                        interrupt \in Interrupts} :
       ui' = UiOf(ui, run)
  /\ Step(disk, dl, other)
  /\ UNCHANGED <<s3, session, paletteVars, repeatVars>>

\* time.sleep has returned: the script advances frame_index and asks for a
\* rerun (lines 320-323)
AdvanceAnimation ==
  /\ ui.ran
  /\ ui.line = 318
  /\ session' = [session EXCEPT !.frame_index = Advance(@, Len(ui.frames))]
  /\ ui' = [ui EXCEPT !.line = 323]
  /\ Step(disk, dl, other)
  /\ UNCHANGED <<s3, paletteVars, repeatVars>>

NextAnimation ==
  \/ PublishFrame
  \/ CopyLoopWrites
  \/ OtherSessionOpens
  \/ OtherSessionCopyEnds
  \/ RerunAnimation
  \/ UltimaHoraGlob
  \/ UltimaHoraExists
  \/ UltimaHoraOpen
  \/ UltimaHoraOpenLocal
  \/ UltimaHoraCopy
  \/ ShowAnimation
  \/ ContinueAnimation
  \/ AdvanceAnimation

SpecAnimation == Init /\ [][NextAnimation]_vars

\* ---- C18 ------------------------------------------------------------------
\* C18: in a rerun with at least two frames and the frame list of the rerun
\* before, which Streamlit did not stop and which is not waiting in
\* time.sleep, if playing was true and is still true the rerun has advanced
\* frame_index to (frame_index + 1) mod n_frames;
\* and a rerun in which the slider returned a value other than frame_index
\* has set frame_index to that value and playing to false.
C18_PlayingAdvances ==
  (ui.ran /\ ~ui.stopped /\ ui.line # 318 /\ Len(ui.frames) >= 2) =>
    /\ (ui.same /\ ui.was_playing /\ session.playing) =>
         /\ ui.error = "none"
         /\ ui.shown = ui.start
         /\ session.frame_index = (ui.start + 1) % Len(ui.frames)
    /\ (ui.idx # -1 /\ ui.idx # ui.value) =>
         /\ session.frame_index = ui.idx
         /\ ~session.playing

\* ---- C19 ------------------------------------------------------------------
\* C19: in every rerun the frame_index handed to the slider as its initial
\* value, and the frame_index used as index into frames, lies in
\* 0..n_frames - 1.
C19_FrameIndexInRange ==
  ui.ran =>
    /\ ui.value # -1 => ui.value \in 0..(Len(ui.frames) - 1)
    /\ (ui.shown # -1 /\ Len(ui.frames) >= 2) => ui.shown \in 0..(Len(ui.frames) - 1)

\* ---- C21 ------------------------------------------------------------------
\* C21: whenever creates_palette has accumulated at least one value, the
\* denominator is vmax - vmin when vmax > vmin and 1 when all values are
\* equal, so never zero, and the positions of the control points it passes to
\* the colour mapping all lie in [0,1] and never decrease along the list.
C21_PositionsNormalized ==
  (pc = "palette" /\ res.acc_vals # <<>>) =>
    /\ res.vmin \in Elems(res.acc_vals)
    /\ res.vmax \in Elems(res.acc_vals)
    /\ \A i \in DOMAIN res.acc_vals :
         res.vmin <= res.acc_vals[i] /\ res.acc_vals[i] <= res.vmax
    /\ res.denom = (IF res.vmax > res.vmin THEN res.vmax - res.vmin ELSE 1)
    /\ res.denom # 0
    /\ Len(res.color_list) = Len(res.acc_vals)
    /\ \A i \in DOMAIN res.color_list :
         /\ res.color_list[i][1] = res.vals_norm[i]
         /\ RatLeq(Zero, res.color_list[i][1])
         /\ RatLeq(res.color_list[i][1], One)
    /\ \A i \in 1..(Len(res.color_list) - 1) :
         RatLeq(res.color_list[i][1], res.color_list[i + 1][1])

\* a call on four values of which two are equal, with a control point
\* halfway between the ends
C21_Witness ==
  /\ pc = "palette"
  /\ Len(res.color_list) = 4
  /\ res.vmax > res.vmin
  /\ \E i, j \in DOMAIN res.all_vals : i # j /\ res.all_vals[i] = res.all_vals[j]
  /\ \E i \in DOMAIN res.color_list : res.color_list[i][1] = Rat(1, 2)

====
